---- MODULE Spec2Model ----
(***************************************************************************)
(* Polling-based trading decision engine of trade_stock (src/src):         *)
(* main_cmd.main_loop, condition.find_action_to_take, the forced-trade     *)
(* state machine condition._process_active_forced_trade, the rule selector *)
(* condition._process_rules, strategy.simple_buy / simple_sell, the order  *)
(* wrappers trade.order_buy / order_sell and the state store of state.py.  *)
(*                                                                         *)
(* One decision cycle of main_loop is one atomic step (the loop is single  *)
(* threaded and synchronous).  Everything the outside world supplies in a  *)
(* cycle (clock, quotes, account snapshot, gateway answers, the reloaded   *)
(* configuration) is an input chosen with \E.                              *)
(*                                                                         *)
(* avg_buy_price is a Python float; it is modelled as an exact rational    *)
(* <<numerator, denominator>> in lowest terms.                             *)
(*                                                                         *)
(* Lines 413-430 of src/src/condition.py are mis-indented in the source    *)
(* (the "if trade_successful:" block after order_sell); they are read as   *)
(* the if/else on trade_successful that the text spells out.               *)
(***************************************************************************)
EXTENDS Integers, Sequences, FiniteSets, TLC

VARIABLES
    file,       \* content of json/trade_state.json (the persisted record)
    pre,        \* the record find_action_to_take loaded in the last cycle
    orders,     \* orders handed to the order gateway in the last cycle
    ret,        \* what find_action_to_take returned in the last cycle
    path,       \* the branch the last cycle took
    sizing,     \* inputs and result of the order-quantity step of the last cycle
    io,         \* reads and writes of the state file in the last cycle
    plan,       \* history of the current acquisition cycle of the forced trade
    config,     \* the forced_trade section of json/config.json
    market_data,\* what the last cycle read of the snapshot it fetched
    clock,      \* datetime.now() as the last cycle read it
    running,    \* the process is alive (main_loop has not been left)
    scan        \* the rules of the last cycle and how _process_rules went through them

vars == <<file, pre, orders, ret, path, sizing, io, plan, config, market_data,
          clock, running, scan>>

-----------------------------------------------------------------------------
(* Bounds of the model *)

MaxQty == 3         \* configured total_quantity ranges over 0..MaxQty
MaxDiv == 2         \* configured division_count ranges over 1..MaxDiv
MaxHold == 2        \* held quantity of the instrument ranges over 0..MaxHold

-----------------------------------------------------------------------------
(* Values *)

TradeTypes == {"AUTO", "BUY", "SELL"}
Markets == {"KRX", "NXT"}

\* quote prices the gateway may answer with (0: a non-positive price)
Prices == {0, 500, 1049, 1051}
LimitPrices == {0, 1000}            \* forced_trade.price: 0 is a market order
Amounts == {100000}                 \* forced_trade.amount when sizing by amount
CashLevels == {60000, 200000}       \* dnca_tot_amt of the balance row
ProfitTargets == {5}                \* sell_profit_target_percent

Max(a, b) == IF a >= b THEN a ELSE b

RECURSIVE GCD(_, _)
GCD(a, b) == IF b = 0 THEN a ELSE GCD(b, a % b)

\* a float value n/d (d > 0) in lowest terms
Rat(n, d) == LET g == GCD(IF n < 0 THEN -n ELSE n, d) IN <<n \div g, d \div g>>
Zero == <<0, 1>>

RECURSIVE SumSeq(_)
SumSeq(s) == IF s = <<>> THEN 0 ELSE Head(s) + SumSeq(Tail(s))

-----------------------------------------------------------------------------
(* The persisted record *)

\* save_trade_state({}) and save_trade_state({'active': False}): only the
\* 'active' key is ever read back from such a record
Blank(kind) ==
    [kind |-> kind, active |-> FALSE, trade_id |-> "", original_trade_type |-> "",
     current_phase |-> "", total_amount |-> 0, remaining_amount |-> 0,
     total_quantity |-> 0, remaining_quantity |-> 0, price |-> 0, market |-> "",
     division_count |-> 0, divisions_done |-> 0, bought_quantity |-> 0,
     avg_buy_price |-> Zero, sell_profit_target_percent |-> 0]

EmptyDict == Blank("empty")
InactiveDict == Blank("inactive")
AbsentFile == Blank("absent")       \* json/trade_state.json does not exist
\* the file as open(TRADE_STATE_FILE, 'w') and an unfinished json.dump leave it:
\* empty, or the beginning of a record
TornFile == Blank("torn")

\* state.load_trade_state: the parsed file, or {'active': False} without a file
\* or when json.load raises
load_trade_state(f) == IF f.kind \in {"absent", "torn"} THEN InactiveDict ELSE f

\* trade_state.get('active')
IsActive(s) == s.kind = "full" /\ s.active

\* forced_trade section of config.json
ForcedTradeConfigs(types, quantities, amounts, prices, markets, divisions) ==
    [trade_type : types,
     quantity : quantities,
     amount : amounts,
     price : prices,
     market : markets,
     division_count : divisions,
     sell_profit_target_percent : ProfitTargets]

\* main_cmd._initialize_trade_state: the record built when forced_trade.enabled
NewTradeState(ft) ==
    [kind |-> "full", active |-> TRUE, trade_id |-> "FORCED",
     original_trade_type |-> ft.trade_type,
     current_phase |-> IF ft.trade_type = "AUTO" THEN "BUYING" ELSE ft.trade_type,
     total_amount |-> ft.amount, remaining_amount |-> ft.amount,
     total_quantity |-> ft.quantity, remaining_quantity |-> ft.quantity,
     price |-> ft.price, market |-> ft.market,
     division_count |-> ft.division_count, divisions_done |-> 0,
     bought_quantity |-> 0, avg_buy_price |-> Zero,
     sell_profit_target_percent |-> ft.sell_profit_target_percent]

\* main_cmd._initialize_trade_state: the content of the file after process start
InitializeTradeState(f, enabled, ft) ==
    LET current_app_state == load_trade_state(f) IN
    IF enabled THEN NewTradeState(ft)
    ELSE IF ~IsActive(current_app_state) THEN InactiveDict
    ELSE current_app_state

-----------------------------------------------------------------------------
(* Snapshot inputs of a cycle *)

\* no cycle has read the clock
NoClock == [weekday |-> 0, minute |-> 0]

\* datetime.now(): weekday (0 = Monday) and minutes since midnight
Clocks ==
    {[weekday |-> 2, minute |-> 8 * 60 + 30],      \* Wednesday 08:30
     [weekday |-> 2, minute |-> 10 * 60],          \* Wednesday 10:00
     [weekday |-> 1, minute |-> 18 * 60 + 1],      \* Tuesday 18:01
     [weekday |-> 5, minute |-> 10 * 60]}          \* Saturday 10:00

\* condition.is_trading_hours
is_trading_hours(check_enabled, market, now) ==
    IF ~check_enabled THEN TRUE
    ELSE IF now.weekday >= 5 THEN FALSE
    ELSE LET start_time == IF market = "NXT" THEN 8 * 60 ELSE 9 * 60
             end_time == IF market = "NXT" THEN 18 * 60 ELSE 15 * 60 + 30
         IN start_time <= now.minute /\ now.minute <= end_time

\* market_data['price_df'].get(stock_code): fetched only for the codes the rules
\* name (find_action_to_take collects all_stock_codes from config['rules']);
\* core_logic.get_price answers None on failure
NoQuote == [present |-> FALSE, stck_prpr |-> 0]
Quotes == {NoQuote} \cup [present : {TRUE}, stck_prpr : Prices]

\* core_logic.get_balance: (holdings_df, balance_df), or (None, None) on failure;
\* row: the holdings row of the forced trade's instrument; rate_column: the
\* holdings table has the column 'evlu_pfls_rt' (the profit rate in percent)
NoAccount == [ok |-> FALSE, row |-> FALSE, hldg_qty |-> 0, ord_psbl_qty |-> 0,
              pchs_avg_pric |-> 0, dnca_tot_amt |-> 0, rate_column |-> TRUE,
              evlu_pfls_rt |-> 0]
Holding(hldg_qty, ord_psbl_qty, cash) ==
    [ok |-> TRUE, row |-> TRUE, hldg_qty |-> hldg_qty, ord_psbl_qty |-> ord_psbl_qty,
     pchs_avg_pric |-> 1000, dnca_tot_amt |-> cash, rate_column |-> TRUE,
     evlu_pfls_rt |-> 6]
\* simulation_logic.get_balance lines 95-104: the rows of simulation mode carry
\* the rate as 'prts_rate' and have no column 'evlu_pfls_rt'
SimulatedHolding(hldg_qty, cash) ==
    [Holding(hldg_qty, hldg_qty, cash) EXCEPT !.rate_column = FALSE]
\* a snapshot without a row of the instrument
NoHolding(cash) ==
    [ok |-> TRUE, row |-> FALSE, hldg_qty |-> 0, ord_psbl_qty |-> 0,
     pchs_avg_pric |-> 0, dnca_tot_amt |-> cash, rate_column |-> TRUE,
     evlu_pfls_rt |-> 0]
\* a row whose pchs_avg_pric is 0: the row's fields are the gateway's answer and
\* lines 310-311 copy them as they are
CostlessHolding(hldg_qty, cash) ==
    [Holding(hldg_qty, hldg_qty, cash) EXCEPT !.pchs_avg_pric = 0]
Accounts ==
    {NoAccount}
    \cup {NoHolding(cash) : cash \in CashLevels}
    \cup {Holding(h, h, 60000) : h \in 0..MaxHold}
    \cup {Holding(MaxHold, MaxHold - 1, 200000)}
    \cup {CostlessHolding(MaxHold, 60000)}

\* condition._get_available_buy_cash
_get_available_buy_cash(acct) == IF acct.ok THEN acct.dnca_tot_amt ELSE 0

\* the quantity held instead of the quantity that can be ordered
HeldQuantity(acct) ==
    IF acct.ok /\ acct.row THEN acct.hldg_qty ELSE 0

\* condition._get_stock_sellable_quantity
_get_stock_sellable_quantity(acct) ==
    IF acct.ok /\ acct.row THEN acct.ord_psbl_qty ELSE 0

-----------------------------------------------------------------------------
(* Order gateway *)

\* trade.order_buy / trade.order_sell return the tuple (success, result) of
\* core_logic.create_order
order_result(success) == <<success, IF success THEN "res_df" ELSE "None">>

\* Python truth value of the object tested by "if trade_successful:"
Truthy(t) == Len(t) > 0

Order(type, quantity, price, success, by) ==
    [type |-> type, quantity |-> quantity, price |-> price, ok |-> success, by |-> by]

-----------------------------------------------------------------------------
(* condition._process_active_forced_trade *)

Handled == [status |-> "forced_trade_handled", type |-> "", quantity |-> 0,
            price |-> 0, is_forced_trade |-> FALSE, strategy_name |-> ""]
NoAction == [Handled EXCEPT !.status = "None"]
Action(type, quantity, price, forced, name) ==
    [status |-> "action", type |-> type, quantity |-> quantity, price |-> price,
     is_forced_trade |-> forced, strategy_name |-> name]

\* a call that saves the state it ends with, whatever it did
OutcomeSavingState(state, saves, sent, returned, branch) ==
    [state |-> state, saves |-> Append(saves, state), orders |-> sent,
     ret |-> returned, branch |-> branch]

\* what one call leaves behind: the in-memory current_state, the records handed
\* to save_trade_state in order, the orders sent, the returned value, the branch
Outcome(state, saves, sent, returned, branch) ==
    [state |-> state, saves |-> saves, orders |-> sent, ret |-> returned,
     branch |-> branch]

\* lines 304-305 and 307-309: the first AUTO BUYING cycle finds a holdings row
SeedsFromHoldings(s, acct) ==
    /\ s.original_trade_type = "AUTO"
    /\ s.divisions_done = 0
    /\ s.bought_quantity = 0
    /\ s.current_phase = "BUYING"
    /\ acct.ok /\ acct.row

\* a seeding that takes the holding off the target and books none of it as bought
SeedRemainingOnly(s, acct) ==
    [s EXCEPT !.remaining_quantity =
                  IF s.total_quantity > 0
                  THEN Max(0, s.total_quantity - acct.hldg_qty) ELSE @]

\* lines 310-322: fold the existing holding into current_state
SeedFromHoldings(s, acct) ==
    [s EXCEPT !.bought_quantity = acct.hldg_qty,
              !.avg_buy_price = Rat(acct.pchs_avg_pric, 1),
              !.remaining_quantity =
                  IF s.total_quantity > 0
                  THEN Max(0, s.total_quantity - acct.hldg_qty) ELSE @]

\* the share taken of the whole plan instead of the divisions still to come
DivisionShareOfPlan(remaining, division_count, divisions_done) ==
    IF divisions_done = division_count - 1 THEN remaining
    ELSE remaining \div Max(1, division_count)

\* lines 333-334, 338-339, 446-447, 450-451: this division's share of what remains
DivisionShare(remaining, division_count, divisions_done) ==
    LET share == IF division_count <= 1 THEN remaining
                 ELSE remaining \div Max(1, division_count - divisions_done)
    IN IF divisions_done = division_count - 1 THEN remaining ELSE share

\* the amount of a division without the clamp of lines 341-344
UnclampedOrderAmount(s, acct) ==
    DivisionShare(s.remaining_amount, s.division_count, s.divisions_done)

\* lines 338-344: the amount of an amount-sized division, clamped to the cash
ClampedOrderAmount(s, acct) ==
    LET order_amount ==
            DivisionShare(s.remaining_amount, s.division_count, s.divisions_done)
        available_cash == _get_available_buy_cash(acct)
    IN IF order_amount > available_cash THEN available_cash ELSE order_amount

\* lines 329-350: order_quantity
OrderQuantity(s, current_price, acct) ==
    LET q == IF s.current_phase \in {"BUYING", "BUY"}
             THEN IF s.total_quantity > 0
                  THEN DivisionShare(s.remaining_quantity, s.division_count,
                                     s.divisions_done)
                  ELSE IF s.total_amount > 0
                  THEN ClampedOrderAmount(s, acct) \div current_price
                  ELSE 0
             ELSE 0
    IN IF q < 0 THEN 0 ELSE q

\* a buy that counts its division twice
AfterAutoBuyCountingTwice(s, order_quantity, current_price) ==
    LET s1 == [s EXCEPT !.divisions_done = @ + 2,
                        !.remaining_quantity = @ - order_quantity,
                        !.avg_buy_price = Rat(IF s.price # 0 THEN s.price ELSE current_price, 1),
                        !.bought_quantity = @ + order_quantity]
    IN IF s1.divisions_done >= s.division_count \/ s1.remaining_quantity <= 0
       THEN [s1 EXCEPT !.current_phase = "SELLING"] ELSE s1

\* a buy that books the mean of the old average and the new price, whatever
\* the quantities
AfterAutoBuyUnweighted(s, order_quantity, current_price) ==
    LET actual_buy_price == IF s.price # 0 THEN s.price ELSE current_price
        s1 == [s EXCEPT !.divisions_done = @ + 1,
                        !.remaining_quantity = @ - order_quantity,
                        !.avg_buy_price =
                            Rat(@[1] + actual_buy_price * @[2], 2 * @[2]),
                        !.bought_quantity = @ + order_quantity]
    IN IF s1.divisions_done >= s.division_count \/ s1.remaining_quantity <= 0
       THEN [s1 EXCEPT !.current_phase = "SELLING"] ELSE s1

\* lines 370-383: current_state after a buy order taken as successful
AfterAutoBuy(s, order_quantity, current_price) ==
    LET actual_buy_price == IF s.price # 0 THEN s.price ELSE current_price
        new_bought_total == s.bought_quantity + order_quantity
        avg == IF new_bought_total > 0
               THEN Rat(s.avg_buy_price[1] * s.bought_quantity
                          + actual_buy_price * order_quantity * s.avg_buy_price[2],
                        s.avg_buy_price[2] * new_bought_total)
               ELSE s.avg_buy_price
        s1 == [s EXCEPT !.divisions_done = @ + 1,
                        !.remaining_quantity = @ - order_quantity,
                        !.avg_buy_price = avg,
                        !.bought_quantity = new_bought_total]
    IN IF s1.divisions_done >= s.division_count \/ s1.remaining_quantity <= 0
       THEN [s1 EXCEPT !.current_phase = "SELLING"] ELSE s1

\* lines 354-389: AUTO, BUYING
AutoBuying(s, saves, order_quantity, current_price, success) ==
    IF s.remaining_quantity <= 0 /\ s.total_quantity > 0
    THEN LET s1 == [s EXCEPT !.current_phase = "SELLING"]
         IN Outcome(s1, Append(saves, s1), <<>>, Handled, "auto_buy_skip")
    ELSE IF order_quantity <= 0
    THEN Outcome(s, saves, <<>>, Handled, "auto_buy_nothing")
    ELSE LET trade_successful == order_result(success)
             sent == <<Order("BUY", order_quantity, s.price, success, "state_machine")>>
         IN IF Truthy(trade_successful)
            THEN LET s1 == AfterAutoBuy(s, order_quantity, current_price)
                 IN Outcome(s1, Append(saves, s1), sent,
                            Action("BUY", order_quantity, s.price, TRUE,
                                   "FORCED_TRADE_AUTO_BUY_DIVISION"),
                            "auto_buy")
            ELSE Outcome(s, saves, sent, Handled, "auto_buy_failed")

\* a sale on any gain, whatever the target
SellsOnAnyGain(avg_buy_price, current_price, target_percent) ==
    current_price * avg_buy_price[2] > avg_buy_price[1]

\* lines 400 and 404: current_profit_percent >= sell_profit_target_percent
ProfitTargetReached(avg_buy_price, current_price, target_percent) ==
    (current_price * avg_buy_price[2] - avg_buy_price[1]) * 100
        >= target_percent * avg_buy_price[1]

\* a reset of the phase that keeps the counters of the finished cycle
ResetPhaseOnly(s) ==
    [s EXCEPT !.current_phase = "BUYING",
              !.remaining_quantity = s.total_quantity,
              !.remaining_amount = s.total_amount,
              !.trade_id = "AUTO_REPEATED"]

\* lines 418-425 (state.reset_trade_state_for_auto_cycle does the same)
ResetForAutoCycle(s) ==
    [s EXCEPT !.current_phase = "BUYING",
              !.divisions_done = 0,
              !.bought_quantity = 0,
              !.avg_buy_price = Zero,
              !.remaining_quantity = s.total_quantity,
              !.remaining_amount = s.total_amount,
              !.trade_id = "AUTO_REPEATED"]

\* lines 393-434: AUTO, SELLING
AutoSelling(s, saves, current_price, acct, success) ==
    IF s.bought_quantity <= 0
    THEN Outcome(s, Append(saves, EmptyDict), <<>>, Handled, "auto_sell_empty")
    ELSE IF s.avg_buy_price[1] > 0
    THEN IF ProfitTargetReached(s.avg_buy_price, current_price,
                                s.sell_profit_target_percent)
         THEN LET sell_quantity == _get_stock_sellable_quantity(acct) IN
              IF sell_quantity <= 0
              THEN Outcome(s, saves, <<>>, Handled, "auto_sell_nothing")
              ELSE LET trade_successful == order_result(success)
                       sent == <<Order("SELL", sell_quantity, 0, success,
                                       "state_machine")>>
                   IN IF Truthy(trade_successful)
                      THEN LET s1 == ResetForAutoCycle(s)
                           IN Outcome(s1, Append(saves, s1), sent,
                                      Action("SELL", sell_quantity, 0, TRUE,
                                             "FORCED_TRADE_AUTO_SELL"),
                                      "auto_sell")
                      ELSE Outcome(s, saves, sent, Handled, "auto_sell_failed")
         ELSE Outcome(s, saves, <<>>, Handled, "auto_sell_wait")
    ELSE Outcome(s, saves, <<>>, Handled, "auto_sell_no_avg")

\* lines 441-451: order_quantity_to_execute of a plain BUY or SELL
SimpleOrderQuantity(s, current_price, acct) ==
    IF s.original_trade_type = "SELL" THEN _get_stock_sellable_quantity(acct)
    ELSE IF s.total_amount > 0 /\ s.total_quantity = 0
    THEN LET order_amount ==
                 DivisionShare(s.remaining_amount, s.division_count, s.divisions_done)
         IN IF current_price > 0 THEN order_amount \div current_price ELSE 0
    ELSE IF s.total_quantity > 0
    THEN DivisionShare(s.remaining_quantity, s.division_count, s.divisions_done)
    ELSE 0

\* lines 437-477: plain BUY / SELL
SimpleTrade(s, saves, current_price, acct, success) ==
    LET action_type == s.original_trade_type
        order_quantity_to_execute == SimpleOrderQuantity(s, current_price, acct)
    IN IF order_quantity_to_execute <= 0
       THEN Outcome(s, saves, <<>>, Handled, "simple_nothing")
       ELSE LET trade_successful == order_result(success)
                sent == <<Order(action_type, order_quantity_to_execute, s.price,
                                success, "state_machine")>>
            IN IF Truthy(trade_successful)
               THEN LET s1 == [s EXCEPT !.divisions_done = @ + 1]
                        saved == IF s1.divisions_done >= s.division_count
                                 THEN EmptyDict ELSE s1
                    IN Outcome(s1, Append(saves, saved), sent,
                               Action(action_type, order_quantity_to_execute, s.price,
                                      TRUE, "FORCED_TRADE_DIVISION"),
                               "simple")
               ELSE Outcome(s, saves, sent, Handled, "simple_failed")

\* what the order-quantity step (lines 328-350) saw and computed
NoSizing == [reached |-> FALSE, state |-> EmptyDict, seeded |-> FALSE,
             current_price |-> 0, available_cash |-> 0, order_quantity |-> 0]
\* available_cash is read at line 341 only, in the amount-sized branch
Sizing(s, seeded, current_price, acct, order_quantity) ==
    [reached |-> TRUE, state |-> s, seeded |-> seeded, current_price |-> current_price,
     available_cash |->
         IF s.current_phase \in {"BUYING", "BUY"} /\ s.total_quantity <= 0
            /\ s.total_amount > 0
         THEN _get_available_buy_cash(acct) ELSE 0,
     order_quantity |-> order_quantity]

\* lines 304-479: the decision once the venue is open and current_price is known
DecideAtPrice(current_state, current_price, acct, success) ==
      LET seeds == SeedsFromHoldings(current_state, acct)
          s == IF seeds THEN SeedFromHoldings(current_state, acct) ELSE current_state
          saves == IF seeds THEN <<s>> ELSE <<>>
          order_quantity == OrderQuantity(s, current_price, acct)
          out == IF s.original_trade_type = "AUTO" /\ s.current_phase = "BUYING"
                 THEN AutoBuying(s, saves, order_quantity, current_price, success)
                 ELSE IF s.original_trade_type = "AUTO" /\ s.current_phase = "SELLING"
                 THEN AutoSelling(s, saves, current_price, acct, success)
                 ELSE IF s.original_trade_type \in {"BUY", "SELL"}
                 THEN SimpleTrade(s, saves, current_price, acct, success)
                 ELSE Outcome(s, saves, <<>>, NoAction, "unknown_type")
      IN out @@ [sizing |-> Sizing(s, seeds, current_price, acct, order_quantity)]

\* the decision taken without the hours check of lines 290-293
ProcessWithoutHoursCheck(current_state, now, quote, acct, success) ==
    IF ~quote.present
    THEN Outcome(current_state, <<>>, <<>>, Handled, "no_quote") @@ [sizing |-> NoSizing]
    ELSE IF quote.stck_prpr <= 0
    THEN Outcome(current_state, <<>>, <<>>, Handled, "bad_price") @@ [sizing |-> NoSizing]
    ELSE DecideAtPrice(current_state, quote.stck_prpr, acct, success)

\* the decision taken without the quote checks of lines 295-302
ProcessWithoutQuoteCheck(current_state, now, quote, acct, success) ==
    IF ~is_trading_hours(TRUE, current_state.market, now)
    THEN Outcome(current_state, <<>>, <<>>, Handled, "closed") @@ [sizing |-> NoSizing]
    ELSE DecideAtPrice(current_state, Max(1, quote.stck_prpr), acct, success)

\* lines 268-479
_process_active_forced_trade(current_state, now, quote, acct, success) ==
    IF ~is_trading_hours(TRUE, current_state.market, now)
    THEN Outcome(current_state, <<>>, <<>>, Handled, "closed") @@ [sizing |-> NoSizing]
    ELSE IF ~quote.present
    THEN Outcome(current_state, <<>>, <<>>, Handled, "no_quote") @@ [sizing |-> NoSizing]
    ELSE IF quote.stck_prpr <= 0
    THEN Outcome(current_state, <<>>, <<>>, Handled, "bad_price") @@ [sizing |-> NoSizing]
    ELSE DecideAtPrice(current_state, quote.stck_prpr, acct, success)

-----------------------------------------------------------------------------
(* Rules of config.json, condition._evaluate_conditions, strategy.py *)

\* dict.get(key, default) on a params mapping
Get(params, key, default) == IF key \in DOMAIN params THEN params[key] ELSE default
Has(params, key) == key \in DOMAIN params

ForcedCode == "A"       \* forced_trade.stock_code
OtherCode == "B"

CondHoursOff == [name |-> "is_trading_hours", params |-> [check_enabled |-> FALSE]]
CondHoursOn == [name |-> "is_trading_hours", params |-> [check_enabled |-> TRUE]]
CondBelowTarget(code, target_price) ==
    [name |-> "is_price_below_target",
     params |-> [stock_code |-> code, target_price |-> target_price]]
CondBelow(code) == CondBelowTarget(code, 1050)
CondCash == [name |-> "has_sufficient_cash", params |-> [min_cash_amount |-> 100000]]
CondProfit(code) ==
    [name |-> "is_target_profit_reached",
     params |-> [stock_code |-> code, target_profit_percent |-> 5]]
CondStopLoss(code) ==
    [name |-> "is_stop_loss_reached",
     params |-> [stock_code |-> code, stop_loss_percent |-> -3]]
\* a name no module-level object of condition.py carries
CondUnknown == [name |-> "is_rsi_oversold", params |-> [period |-> 14]]
\* the name of a helper function of condition.py, not of a predicate
CondHelper == [name |-> "_get_available_buy_cash", params |-> [min_cash_amount |-> 100000]]
\* the name of a module imported by condition.py
CondModule == [name |-> "logging", params |-> [period |-> 14]]

\* one rule of config['rules']
Rule(name, conds, strategy_name, strategy_params) ==
    [rule_name |-> name, conditions |-> conds,
     strategy |-> [name |-> strategy_name, params |-> strategy_params]]
RuleBuy(name, code, conds) ==
    Rule(name, conds, "simple_buy", [stock_code |-> code, amount |-> 1500])
RuleSellAll(name, code, conds) ==
    Rule(name, conds, "simple_sell", [stock_code |-> code, sell_all |-> TRUE])

\* config['rules'] as reloaded at the start of a cycle
RuleBooks ==
    {<<>>,
     <<RuleBuy("buy_b", OtherCode, <<CondHoursOn, CondBelow(OtherCode)>>)>>,
     <<RuleBuy("buy_a", ForcedCode, <<CondHoursOff, CondBelow(ForcedCode)>>)>>,
     <<RuleSellAll("sell_a", ForcedCode, <<CondUnknown>>),
       RuleSellAll("sell_a2", ForcedCode, <<>>),
       RuleBuy("buy_a", ForcedCode, <<CondCash>>)>>,
     <<RuleSellAll("take_profit", ForcedCode, <<CondProfit(ForcedCode)>>)>>}

\* find_action_to_take lines 493-503: the codes whose quote is fetched
AllStockCodes(rules) ==
    (UNION {{Get(rules[i].conditions[j].params, "stock_code", "") :
                j \in 1..Len(rules[i].conditions)} : i \in 1..Len(rules)}
     \cup {Get(rules[i].strategy.params, "stock_code", "") : i \in 1..Len(rules)})
    \ {""}

\* market_data['price_df'].get(code), lines 507-508
PriceDf(rules, quote, code) == IF code \in AllStockCodes(rules) THEN quote ELSE NoQuote

\* holdings_df[holdings_df['pdno'] == code]: the snapshot holds a row of ForcedCode only
HasHolding(acct, code) == acct.ok /\ acct.row /\ code = ForcedCode

\* condition.is_price_below_target
is_price_below_target(stock_code, params, price_df) ==
    IF stock_code = "" THEN FALSE
    ELSE IF ~Has(params, "target_price") THEN FALSE
    ELSE IF ~price_df.present THEN FALSE
    ELSE price_df.stck_prpr < params.target_price

\* condition.has_sufficient_cash
has_sufficient_cash(params, acct) ==
    IF ~Has(params, "min_cash_amount") THEN FALSE
    ELSE IF ~acct.ok THEN FALSE
    ELSE acct.dnca_tot_amt >= params.min_cash_amount

\* what calling a condition function gives: a truth value, or an exception
\* that nothing between the call and main_loop catches
BoolResult(b) == IF b THEN "true" ELSE "false"

\* condition.is_target_profit_reached: line 143 reads holding['evlu_pfls_rt']
is_target_profit_reached(stock_code, params, acct) ==
    IF stock_code = "" THEN "false"
    ELSE IF ~Has(params, "target_profit_percent") THEN "false"
    ELSE IF ~HasHolding(acct, stock_code) THEN "false"
    ELSE IF ~acct.rate_column THEN "raise"
    ELSE BoolResult(acct.evlu_pfls_rt >= params.target_profit_percent)

\* condition.is_stop_loss_reached: line 168 reads holding['evlu_pfls_rt']
is_stop_loss_reached(stock_code, params, acct) ==
    IF stock_code = "" THEN "false"
    ELSE IF ~Has(params, "stop_loss_percent") THEN "false"
    ELSE IF ~HasHolding(acct, stock_code) THEN "false"
    ELSE IF ~acct.rate_column THEN "raise"
    ELSE BoolResult(acct.evlu_pfls_rt <= params.stop_loss_percent)

\* the registry lookup globals().get(cond_name), line 182: the registry is the
\* namespace of the module condition, so it answers for the five predicates,
\* for the module's other functions and for the modules it imports
Predicates == {"is_trading_hours", "is_price_below_target", "has_sufficient_cash",
               "is_target_profit_reached", "is_stop_loss_reached"}
HelperNames == {"_get_available_buy_cash"}
ModuleNames == {"logging"}
CondNames == Predicates \cup HelperNames \cup ModuleNames

\* lines 188-203: the call of the object the registry answered with; the market
\* handed to it is 'KRX' (line 196: strategy_config is no local of the function);
\* inspect.signature (line 200) raises TypeError for a module; a helper is called
\* with the arguments its signature names and its result is taken as a truth value
CallCondition(cond, stock_code, now, price_df, acct) ==
    IF cond.name = "is_trading_hours"
    THEN BoolResult(is_trading_hours(Get(cond.params, "check_enabled", TRUE), "KRX", now))
    ELSE IF cond.name = "is_price_below_target"
    THEN BoolResult(is_price_below_target(stock_code, cond.params, price_df))
    ELSE IF cond.name = "has_sufficient_cash"
    THEN BoolResult(has_sufficient_cash(cond.params, acct))
    ELSE IF cond.name = "is_target_profit_reached"
    THEN is_target_profit_reached(stock_code, cond.params, acct)
    ELSE IF cond.name = "is_stop_loss_reached"
    THEN is_stop_loss_reached(stock_code, cond.params, acct)
    ELSE IF cond.name \in ModuleNames THEN "raise"
    ELSE BoolResult(_get_available_buy_cash(acct) # 0)

\* an evaluation that passes over a name the registry does not know
EvalSkippingUnknown(cond, stock_code, now, price_df, acct) ==
    IF cond.name \notin CondNames THEN "true"
    ELSE CallCondition(cond, stock_code, now, price_df, acct)

\* one condition of _evaluate_conditions, lines 180-204
EvalCondition(cond, stock_code, now, price_df, acct) ==
    IF cond.name \notin CondNames THEN "false"
    ELSE CallCondition(cond, stock_code, now, price_df, acct)

\* value: what the list evaluates to; evaluated: how many conditions were called
Evaluation(value, evaluated) == [value |-> value, evaluated |-> evaluated]

\* lines 179-204: the loop from condition j on
RECURSIVE EvaluateFrom(_, _, _, _, _, _)
EvaluateFrom(j, stock_code, conditions_config, now, price_df, acct) ==
    IF j > Len(conditions_config) THEN Evaluation("true", Len(conditions_config))
    ELSE LET v == EvalCondition(conditions_config[j], stock_code, now, price_df, acct)
         IN IF v = "true"
            THEN EvaluateFrom(j + 1, stock_code, conditions_config, now, price_df, acct)
            ELSE Evaluation(v, j)

\* an evaluation that calls every condition before it answers
EvaluateEveryCondition(stock_code, conditions_config, now, price_df, acct) ==
    LET results == [j \in 1..Len(conditions_config) |->
                       EvalCondition(conditions_config[j], stock_code, now, price_df, acct)]
    IN Evaluation(IF \E j \in 1..Len(results) : results[j] = "raise" THEN "raise"
                  ELSE IF \E j \in 1..Len(results) : results[j] = "false" THEN "false"
                  ELSE "true",
                  Len(conditions_config))

\* condition._evaluate_conditions
_evaluate_conditions(stock_code, conditions_config, now, price_df, acct) ==
    IF conditions_config = <<>> THEN Evaluation("true", 0)
    ELSE EvaluateFrom(1, stock_code, conditions_config, now, price_df, acct)

\* a purchase sized by the amount whatever quantity the rule names
BuyByAmountFirst(params, price_df) ==
    LET amount == Get(params, "amount", 0)
        quantity == Get(params, "quantity", 0)
        price == Get(params, "price", 0)
    IN IF Get(params, "stock_code", "") = "" THEN NoAction
       ELSE IF ~price_df.present \/ price_df.stck_prpr <= 0 THEN NoAction
       ELSE IF amount # 0
       THEN Action("BUY", (amount + price_df.stck_prpr - 1) \div price_df.stck_prpr,
                   price, FALSE, "simple_buy")
       ELSE IF quantity = 0 THEN NoAction
       ELSE Action("BUY", quantity, price, FALSE, "simple_buy")

\* strategy.simple_buy
simple_buy(params, price_df) ==
    LET stock_code == Get(params, "stock_code", "")
        amount == Get(params, "amount", 0)
        quantity == Get(params, "quantity", 0)
        price == Get(params, "price", 0)
    IN IF stock_code = "" THEN NoAction
       ELSE IF amount # 0 /\ quantity = 0
       THEN IF ~price_df.present THEN NoAction
            ELSE IF price_df.stck_prpr > 0
            THEN IF amount \div price_df.stck_prpr = 0 THEN NoAction
                 ELSE Action("BUY", amount \div price_df.stck_prpr, price, FALSE,
                             "simple_buy")
            ELSE NoAction
       ELSE IF quantity = 0 THEN NoAction
       ELSE Action("BUY", quantity, price, FALSE, "simple_buy")

\* strategy.simple_sell
simple_sell(params, acct) ==
    LET stock_code == Get(params, "stock_code", "")
        sell_all == Get(params, "sell_all", FALSE)
        quantity == Get(params, "quantity", 0)
        price == Get(params, "price", 0)
        held_qty == IF HasHolding(acct, stock_code) THEN acct.hldg_qty ELSE 0
    IN IF stock_code = "" THEN NoAction
       ELSE IF sell_all
       THEN IF held_qty > 0 THEN Action("SELL", held_qty, price, FALSE, "simple_sell")
            ELSE NoAction
       ELSE IF quantity <= 0 THEN NoAction
       ELSE Action("SELL", quantity, price, FALSE, "simple_sell")

\* getattr(strategy, strategy_func_name, None), line 241
StrategyNames == {"simple_buy", "simple_sell"}

\* _process_rules lines 223-228: the instrument code of a rule
RuleStockCode(rule) ==
    LET own == Get(rule.strategy.params, "stock_code", "")
        carrying == {j \in 1..Len(rule.conditions) :
                        Get(rule.conditions[j].params, "stock_code", "") # ""}
    IN IF own # "" THEN own
       ELSE IF carrying = {} THEN ""
       ELSE rule.conditions[CHOOSE j \in carrying : \A k \in carrying : j <= k]
                .params.stock_code

\* an exception on its way out of find_action_to_take, in the place of an answer
Raised == [Handled EXCEPT !.status = "raised"]

\* what the loop body of _process_rules did with one rule: how many of its
\* conditions were called, whether _evaluate_conditions answered True, whether
\* the strategy was called, and the order the strategy answered with (NoAction:
\* the scan goes on with the next rule)
Step(action, evaluated, matched, invoked) ==
    [action |-> action, evaluated |-> evaluated, matched |-> matched,
     invoked |-> invoked]

\* _process_rules lines 217-263: the loop body for one rule
RuleStep(rule, rules, now, quote, acct) ==
    LET rule_stock_code == RuleStockCode(rule)
        price_df == PriceDf(rules, quote, rule_stock_code)
        conds == _evaluate_conditions(rule_stock_code, rule.conditions, now, price_df,
                                      acct)
        action == IF rule.strategy.name = "simple_buy"
                  THEN simple_buy(rule.strategy.params, price_df)
                  ELSE simple_sell(rule.strategy.params, acct)
    IN IF rule_stock_code = "" THEN Step(NoAction, 0, FALSE, FALSE)
       ELSE IF conds.value = "raise" THEN Step(Raised, conds.evaluated, FALSE, FALSE)
       ELSE IF conds.value = "false" THEN Step(NoAction, conds.evaluated, FALSE, FALSE)
       ELSE IF rule.strategy.name \notin StrategyNames
       THEN Step(NoAction, conds.evaluated, TRUE, FALSE)
       ELSE Step(IF action.status = "action"
                 THEN [action EXCEPT !.strategy_name = rule.rule_name] ELSE NoAction,
                 conds.evaluated, TRUE, TRUE)

\* ret: what _process_rules returns; trace: the rules it went through, in order
Selection(returned, trace) == [ret |-> returned, trace |-> trace]

\* lines 216-265: the loop from rule k on, trace: the rules gone through so far
RECURSIVE ScanRules(_, _, _, _, _, _)
ScanRules(k, trace, rules, now, quote, acct) ==
    IF k > Len(rules) THEN Selection(NoAction, trace)
    ELSE \* the loop body is gone through once for a rule
         CHOOSE selected \in
             {IF step.action.status \in {"action", "raised"}
              THEN Selection(step.action, Append(trace, step))
              ELSE ScanRules(k + 1, Append(trace, step), rules, now, quote, acct) :
              step \in {RuleStep(rules[k], rules, now, quote, acct)}} : TRUE

\* a selector that goes through every rule and answers with the last order
RECURSIVE LastMatchFrom(_, _, _, _, _, _, _)
LastMatchFrom(k, last, trace, rules, now, quote, acct) ==
    IF k > Len(rules) THEN Selection(last, trace)
    ELSE CHOOSE selected \in
             {IF step.action.status = "raised"
              THEN Selection(step.action, Append(trace, step))
              ELSE LastMatchFrom(k + 1,
                                 IF step.action.status = "action" THEN step.action
                                 ELSE last,
                                 Append(trace, step), rules, now, quote, acct) :
              step \in {RuleStep(rules[k], rules, now, quote, acct)}} : TRUE
LastMatchingRule(rules, now, quote, acct) ==
    LastMatchFrom(1, NoAction, <<>>, rules, now, quote, acct)

\* condition._process_rules: the first rule that yields an order
_process_rules(rules, now, quote, acct) == ScanRules(1, <<>>, rules, now, quote, acct)

-----------------------------------------------------------------------------
(* condition.find_action_to_take and main_cmd.main_loop *)

\* line 516: the forced trade is processed
ForcedTradeProcessed(f, enabled) == enabled /\ IsActive(load_trade_state(f))

\* the branches that read the sellable quantity of the snapshot (lines 404, 442)
SellBranches == {"auto_sell_nothing", "auto_sell", "auto_sell_failed"}
ReadsSellable(out) ==
    \/ out.branch \in SellBranches
    \/ out.branch \in {"simple_nothing", "simple", "simple_failed"}
         /\ out.sizing.state.original_trade_type = "SELL"

\* lines 505-510: market_data as the cycle used it: the quote of the forced
\* trade's instrument, whether get_balance delivered the snapshot, and the
\* ord_psbl_qty of the instrument's row where the cycle read it
\* asked: the gateway was asked for that quote (lines 493-508: the instrument
\* is among all_stock_codes)
MarketData(rules, quote, acct, out) ==
    [price_df |-> PriceDf(rules, quote, ForcedCode),
     asked |-> ForcedCode \in AllStockCodes(rules), fetched |-> acct.ok,
     ord_psbl_qty |-> IF ReadsSellable(out) THEN acct.ord_psbl_qty ELSE 0]
NoMarketData == [price_df |-> NoQuote, asked |-> FALSE, fetched |-> FALSE,
                 ord_psbl_qty |-> 0]

\* the rules a cycle went through, with the snapshot they were evaluated on
NoScan == [rules |-> <<>>, quote |-> NoQuote, acct |-> NoAccount, trace |-> <<>>]
Scan(rules, quote, acct, trace) ==
    [rules |-> rules, quote |-> quote, acct |-> acct, trace |-> trace]

\* find_action_to_take lines 512-541; rules_evaluated: _process_rules was called;
\* branch "raised": an exception left find_action_to_take
find_action_to_take(f, enabled, rules, now, quote, acct, success) ==
    LET trade_state == load_trade_state(f) IN
    IF ForcedTradeProcessed(f, enabled)
    THEN LET out == _process_active_forced_trade(
                        trade_state, now, PriceDf(rules, quote, ForcedCode), acct, success)
         IN [out EXCEPT !.ret = IF out.ret.status \in {"action", "forced_trade_handled"}
                                THEN out.ret ELSE NoAction]
            @@ [rules_evaluated |-> FALSE,
                market_data |-> MarketData(rules, quote, acct, out),
                now |-> now, scan |-> NoScan]
    ELSE \* _process_rules is called once, line 535
         CHOOSE answer \in
             {LET out == Outcome(trade_state, <<>>, <<>>, selected.ret,
                                 IF selected.ret.status = "raised" THEN "raised"
                                 ELSE "rules")
              IN out @@ [sizing |-> NoSizing, rules_evaluated |-> TRUE,
                         market_data |-> MarketData(rules, quote, acct, out),
                         now |-> now, scan |-> Scan(rules, quote, acct, selected.trace)] :
              selected \in {_process_rules(rules, now, quote, acct)}} : TRUE

\* main_loop lines 153-177: the order main_loop itself sends for a BUY/SELL action
MainLoopOrders(action_to_take, success) ==
    IF action_to_take.status = "action" /\ action_to_take.type \in {"BUY", "SELL"}
    THEN <<Order(action_to_take.type, action_to_take.quantity, action_to_take.price,
                 success, "main_loop")>>
    ELSE <<>>

\* the file after the saves of a cycle
FileAfter(f, saves) == IF saves = <<>> THEN f ELSE saves[Len(saves)]

-----------------------------------------------------------------------------
(* The program *)

\* the forced_trade sections the model starts a trade from
\* sized by quantity, by amount, by both (quantity wins) or by neither; a plain
\* SELL reads neither; market and limit orders on KRX
Sizings(types, quantities, amounts) ==
    ForcedTradeConfigs(types, quantities, amounts, LimitPrices, {"KRX"}, 1..MaxDiv)
\* one trade of each type on the other venue
NxtConfigs == ForcedTradeConfigs(TradeTypes, {1}, {0}, {0}, Markets \ {"KRX"}, {1})
\* the divisional plans of scenarios A and B of the specification
ScenarioPlans == {[quantity |-> 100, division_count |-> 4],
                  [quantity |-> 10, division_count |-> 3]}
ScenarioConfigs ==
    {[trade_type |-> type, quantity |-> p.quantity, amount |-> 0, price |-> 0,
      market |-> "KRX", division_count |-> p.division_count,
      sell_profit_target_percent |-> 5] : type \in {"AUTO", "BUY"}, p \in ScenarioPlans}
Configs ==
    Sizings({"AUTO", "BUY"}, 0..MaxQty, {0})
    \cup Sizings({"AUTO", "BUY"}, {0, 2}, Amounts)
    \cup Sizings({"SELL"}, {0, 2}, {0})
    \cup NxtConfigs
\* the scenario plans next to the quantity-sized AUTO trades of the bounds
QuantityPlanConfigs == ScenarioConfigs \cup Sizings({"AUTO"}, 1..MaxQty, {0})

\* history of one acquisition cycle: the division sizes decided so far, the
\* shares asked of the gateway in BUY orders, the number of BUY orders handed
\* to the gateway, whether every order succeeded,
\* whether existing holdings were folded into the record
\* seed_qty, seed_cost: the holding the acquisition cycle was seeded with and
\* what it cost; cost: the sum of execution price times size over the buys
FreshPlan == [sizes |-> <<>>, sent |-> 0, submitted |-> 0, all_ok |-> TRUE,
              seeded |-> FALSE, seed_qty |-> 0, seed_cost |-> 0, cost |-> 0]

NoIo == [reads |-> 0, writes |-> 0]

AllOk(sent) == \A i \in 1..Len(sent) : sent[i].ok
SentQuantity(sent, type) ==
    SumSeq([i \in 1..Len(sent) |-> IF sent[i].type = type THEN sent[i].quantity ELSE 0])

\* the number of orders of a type handed to the gateway
SentOrders(sent, type) == Cardinality({i \in 1..Len(sent) : sent[i].type = type})

\* the price a buy is booked at: the limit price of the order, the quote of
\* the cycle for a market order
ExecutionPrice(s, current_price) == IF s.price # 0 THEN s.price ELSE current_price

PlanAfter(p, out, sent) ==
    IF out.branch = "auto_sell" THEN FreshPlan
    ELSE IF out.branch \in {"rules", "raised"} THEN p
    ELSE [sizes |-> IF out.ret.status = "action" /\ out.ret.type = "BUY"
                    THEN Append(p.sizes, out.ret.quantity) ELSE p.sizes,
          sent |-> p.sent + SentQuantity(sent, "BUY"),
          submitted |-> p.submitted + SentOrders(sent, "BUY"),
          all_ok |-> p.all_ok /\ AllOk(sent),
          seeded |-> p.seeded \/ (out.sizing.seeded /\ out.sizing.state.bought_quantity > 0),
          seed_qty |-> IF out.sizing.seeded THEN out.sizing.state.bought_quantity
                       ELSE p.seed_qty,
          seed_cost |-> IF out.sizing.seeded
                        THEN out.sizing.state.avg_buy_price[1]
                               * out.sizing.state.bought_quantity
                        ELSE p.seed_cost,
          cost |-> IF out.branch = "auto_buy"
                   THEN p.cost + ExecutionPrice(out.sizing.state, out.sizing.current_price)
                                   * out.ret.quantity
                   ELSE p.cost]

\* process start: __main__ lines 200-206 with no state file yet
StartWith(f, enabled, ft) ==
    /\ file' = InitializeTradeState(f, enabled, ft)
    /\ pre' = f
    /\ orders' = <<>>
    /\ ret' = NoAction
    /\ path' = "start"
    /\ sizing' = NoSizing
    /\ io' = [reads |-> 1, writes |-> 1]
    /\ market_data' = NoMarketData
    /\ clock' = NoClock
    /\ running' = TRUE
    /\ scan' = NoScan

\* the state after construction, the forced_trade section drawn from configs
InitWith(configs) ==
    \E enabled \in BOOLEAN, ft \in configs :
        /\ config = ft
        /\ file = InitializeTradeState(AbsentFile, enabled, ft)
        /\ pre = AbsentFile
        /\ orders = <<>>
        /\ ret = NoAction
        /\ path = "start"
        /\ sizing = NoSizing
        /\ io = [reads |-> 1, writes |-> 1]
        /\ plan = FreshPlan
        /\ market_data = NoMarketData
        /\ clock = NoClock
        /\ running = TRUE
        /\ scan = NoScan

Init == InitWith(Configs)
ScenarioInit == InitWith(QuantityPlanConfigs)

\* the process is started again: _initialize_trade_state on the file left behind
ProcessStart ==
    \E enabled \in BOOLEAN :
        /\ StartWith(file, enabled, config)
        /\ plan' = IF enabled THEN FreshPlan ELSE plan
        /\ UNCHANGED config

\* main_loop lines 144-148: config.json cannot be loaded, the cycle is skipped
ConfigLoadFailed ==
    /\ running
    /\ pre' = file
    /\ orders' = <<>>
    /\ ret' = NoAction
    /\ path' = "no_config"
    /\ sizing' = NoSizing
    /\ io' = NoIo
    /\ market_data' = NoMarketData
    /\ clock' = NoClock
    /\ scan' = NoScan
    /\ UNCHANGED <<file, plan, config, running>>

\* main_loop lines 150-191 after find_action_to_take has answered
FinishCycle(out, success2) ==
    LET sent == out.orders \o MainLoopOrders(out.ret, success2)
    IN /\ file' = FileAfter(file, out.saves)
       /\ pre' = load_trade_state(file)
       /\ orders' = sent
       /\ ret' = out.ret
       /\ path' = out.branch
       /\ sizing' = out.sizing
       /\ io' = [reads |-> 1, writes |-> Len(out.saves)]
       /\ plan' = PlanAfter(plan, out, sent)
       /\ market_data' = out.market_data
       /\ clock' = out.now
       /\ running' = (out.branch # "raised")
       /\ scan' = out.scan
       /\ UNCHANGED config

\* the gateway is asked for an answer only when an order reaches it
Answers(sent) == IF sent = <<>> THEN {TRUE} ELSE BOOLEAN

\* a forced-trade cycle reads the rules only for all_stock_codes: one rule book
\* that names the instrument and one that does not
ForcedRuleBooks ==
    {CHOOSE r \in RuleBooks : ForcedCode \in AllStockCodes(r),
     CHOOSE r \in RuleBooks : ForcedCode \notin AllStockCodes(r)}

\* lines 507-508: a quote is asked of the gateway only for the codes of the rules
QuotesFetched(rules) == IF ForcedCode \in AllStockCodes(rules) THEN Quotes ELSE {NoQuote}

\* what find_action_to_take can answer in a cycle of the forced trade with the
\* venue open and a positive price quoted: every snapshot, every gateway answer
AnswersAtPrice(f, rules, now, quote) ==
    UNION {LET accepted == find_action_to_take(f, TRUE, rules, now, quote, acct, TRUE)
           IN IF accepted.orders = <<>> THEN {accepted}
              ELSE {accepted,
                    find_action_to_take(f, TRUE, rules, now, quote, acct, FALSE)} :
           acct \in Accounts}

\* the snapshot of a cycle that finds the venue closed: the gateway answers as
\* on any other cycle, lines 505-510 fetch before the hours are looked at
ClosedVenueQuote == [present |-> TRUE, stck_prpr |-> 1051]
ClosedVenueAccount == Holding(MaxHold, MaxHold - 1, 200000)

\* what find_action_to_take can answer in a cycle of the forced trade: the
\* snapshot is read only when the venue is open and the quote has a positive
\* price, the gateway is asked only when an order is sent
ForcedTradeAnswers(f) ==
    UNION {IF ~is_trading_hours(TRUE, f.market, now)
           THEN {find_action_to_take(f, TRUE, rules, now, ClosedVenueQuote,
                                     ClosedVenueAccount, TRUE)}
           ELSE UNION {IF ~PriceDf(rules, quote, ForcedCode).present
                          \/ quote.stck_prpr <= 0
                       THEN {find_action_to_take(f, TRUE, rules, now, quote, NoAccount,
                                                 TRUE)}
                       ELSE AnswersAtPrice(f, rules, now, quote) :
                       quote \in QuotesFetched(rules)} :
           rules \in ForcedRuleBooks, now \in Clocks}

\* the process is stopped while save_trade_state writes the last record of the
\* cycle: open(..., 'w') has emptied the file and json.dump has written none or
\* a part of the new record (a stop after the whole record is written is a
\* finished cycle followed by a process start)
StoppedInSave(out) ==
    /\ out.saves # <<>>
    /\ file' = TornFile
    /\ pre' = load_trade_state(file)
    /\ orders' = out.orders
    /\ ret' = NoAction
    /\ path' = "stopped"
    /\ sizing' = NoSizing
    /\ io' = [reads |-> 1, writes |-> Len(out.saves)]
    /\ market_data' = NoMarketData
    /\ clock' = out.now
    /\ running' = FALSE
    /\ scan' = NoScan
    /\ plan' = FreshPlan
    /\ UNCHANGED config

\* one cycle of main_loop in which line 516 hands the cycle to the forced trade
ForcedTradeCycle ==
    /\ running
    /\ ForcedTradeProcessed(file, TRUE)
    /\ \E out \in ForcedTradeAnswers(file) :
         \/ \E success2 \in Answers(MainLoopOrders(out.ret, TRUE)) :
                FinishCycle(out, success2)
         \/ StoppedInSave(out)

\* the inputs of a cycle the rule selector decides
RuleInputs ==
    [rules : RuleBooks, now : Clocks,
     quote : {NoQuote, [present |-> TRUE, stck_prpr |-> 500]},
     acct : {NoAccount, Holding(1, 1, 60000), SimulatedHolding(1, 60000)}]
RuleOutcome(i) == _process_rules(i.rules, i.now, i.quote, i.acct).ret
\* one input for each answer the rule selector can give
RuleInputClasses ==
    {CHOOSE i \in RuleInputs : RuleOutcome(i) = a : a \in {RuleOutcome(i) : i \in RuleInputs}}

\* one cycle of main_loop in which the rule selector decides; enabled:
\* forced_trade.enabled of the config.json the cycle loaded
RuleCycleWith(enabled) ==
    \E i \in RuleInputClasses :
        /\ running
        /\ ~ForcedTradeProcessed(file, enabled)
        /\ \E out \in {find_action_to_take(file, enabled, i.rules, i.now, i.quote,
                                             i.acct, TRUE)} :
             \E success2 \in Answers(MainLoopOrders(out.ret, TRUE)) :
                  FinishCycle(out, success2)

RuleCycle == \E enabled \in BOOLEAN : RuleCycleWith(enabled)

\* a cycle of the rule selector while forced_trade.enabled is true: no forced
\* trade is active
EnabledRuleCycle == RuleCycleWith(TRUE)

Next == ProcessStart \/ ConfigLoadFailed \/ ForcedTradeCycle \/ RuleCycle

\* the rule books the rule selector is examined on
DipBook ==
    <<Rule("dip_buy", <<CondHoursOff, CondBelowTarget(ForcedCode, 50000)>>,
           "simple_buy", [stock_code |-> ForcedCode, quantity |-> 1])>>
\* rules of the other venue that trade in its hours, checked and unchecked
VenueBook ==
    <<Rule("nxt_buy", <<CondHoursOn>>, "simple_buy",
           [stock_code |-> ForcedCode, quantity |-> 1, market |-> "NXT"]),
      Rule("nxt_any_time", <<CondHoursOff>>, "simple_buy",
           [stock_code |-> ForcedCode, quantity |-> 2, market |-> "NXT"])>>
SelectorRuleBooks ==
    {<<>>,
     <<RuleSellAll("sell_a", ForcedCode, <<CondUnknown>>),
       RuleSellAll("sell_a2", ForcedCode, <<>>),
       RuleBuy("buy_a", ForcedCode, <<CondCash>>)>>,
     DipBook,
     <<RuleSellAll("take_profit", ForcedCode, <<CondHoursOn, CondProfit(ForcedCode)>>),
       Rule("stop_loss", <<CondStopLoss(ForcedCode)>>, "simple_sell",
            [stock_code |-> ForcedCode, quantity |-> 1]),
       Rule("buy_fixed", <<>>, "simple_buy",
            [stock_code |-> OtherCode, quantity |-> 2, amount |-> 1500])>>,
     <<Rule("momentum", <<>>, "momentum_buy", [stock_code |-> ForcedCode]),
       Rule("no_code", <<CondHoursOff>>, "simple_buy", [amount |-> 1500]),
       Rule("sell_none", <<>>, "simple_sell",
            [stock_code |-> ForcedCode, quantity |-> 0]),
       RuleBuy("buy_amount", ForcedCode, <<CondHelper>>),
       Rule("sell_one", <<>>, "simple_sell",
            [stock_code |-> ForcedCode, quantity |-> 1])>>,
     <<Rule("logged", <<CondCash, CondModule>>, "simple_sell",
            [stock_code |-> ForcedCode, quantity |-> 1])>>}

\* the inputs of a cycle of the rule selector: every rule book with the venue
\* open (Wednesday 10:00) and closed (Saturday 10:00), on every quote and
\* account snapshot
SelectorInputs ==
    [rules : SelectorRuleBooks, now : {c \in Clocks : c.minute = 10 * 60},
     quote : {NoQuote} \cup [present : {TRUE}, stck_prpr : {0, 1049, 49000, 51000}],
     acct : {NoAccount, NoHolding(200000), Holding(0, 0, 60000),
             Holding(1, 1, 60000), Holding(MaxHold, MaxHold - 1, 200000),
             SimulatedHolding(MaxHold, 60000),
             [Holding(1, 1, 60000) EXCEPT !.evlu_pfls_rt = -4]}]
    \cup [rules : {VenueBook}, now : Clocks,
          quote : {[present |-> TRUE, stck_prpr |-> 1049]},
          acct : {NoHolding(200000)}]

\* the process is started again with forced_trade.enabled = false
ProcessStartDisabled ==
    /\ StartWith(file, FALSE, config)
    /\ UNCHANGED <<plan, config>>

\* one cycle of main_loop with forced_trade.enabled = false: the rules decide
SelectorCycle ==
    \E i \in SelectorInputs :
        /\ running
        /\ ~ForcedTradeProcessed(file, FALSE)
        /\ \E out \in {find_action_to_take(file, FALSE, i.rules, i.now, i.quote,
                                             i.acct, TRUE)} :
             \E success2 \in Answers(MainLoopOrders(out.ret, TRUE)) :
                  FinishCycle(out, success2)

\* the program run on rules only: forced_trade.enabled is false at the start and
\* at every reload of config.json
RuleInit == InitWith({ft \in NxtConfigs : ft.trade_type = "BUY"}) /\ file = InactiveDict
RuleNext == ProcessStartDisabled \/ ConfigLoadFailed \/ SelectorCycle
RuleSpec == RuleInit /\ [][RuleNext]_vars

Spec == Init /\ [][Next]_vars

\* the same program started on the divisional plans of the scenarios, with
\* forced_trade.enabled true at every reload of config.json
ScenarioNext == ProcessStart \/ ConfigLoadFailed \/ ForcedTradeCycle \/ EnabledRuleCycle
ScenarioSpec == ScenarioInit /\ [][ScenarioNext]_vars

-----------------------------------------------------------------------------
(* Properties *)

\* the last step was a cycle of main_loop that the forced trade decided
ForcedCycleDone == path \notin {"start", "no_config", "rules", "raised", "stopped"}
\* the last step was a cycle of main_loop that reached find_action_to_take
CycleDone == path \notin {"start", "no_config", "stopped"}
\* the last cycle sent the order of a division to the gateway
DivisionOrdered == ForcedCycleDone /\ orders # <<>>
\* the record the order-quantity step of the last cycle worked on
Sized == sizing.state

\* C1: when the gateway reports failure for the order a forced-trade cycle
\* submitted, the persisted state after the cycle equals the state before it
\* (stated for the cycles that did not fold holdings into the record first).
C1_FailedOrderKeepsState ==
    (DivisionOrdered /\ ~orders[1].ok /\ ~sizing.seeded) => file = pre

\* C2: at most one order is handed to the order gateway in a cycle.
C2_AtMostOneOrderPerCycle == Len(orders) <= 1

\* C3: a cycle that loads a record with active = true does not evaluate the rule
\* selector, whatever forced_trade.enabled is.
C3_ActiveRecordSkipsRules == (CycleDone /\ IsActive(pre)) => path # "rules"

\* C4: remaining_quantity >= 0 and remaining_amount >= 0 in every persisted record.
C4_RemainingNonNegative == file.remaining_quantity >= 0 /\ file.remaining_amount >= 0

\* the last cycle was the AUTO buy that moved the phase to SELLING
AcquisitionCompleted ==
    /\ path = "auto_buy"
    /\ pre.current_phase = "BUYING"
    /\ file.current_phase = "SELLING"

\* C5: quantity-sized AUTO trade, no prior holdings, every order successful: the
\* buy orders of the acquisition cycle sum to total_quantity and
\* remaining_quantity is 0 when the phase becomes SELLING.
C5_BuyOrdersSumToTotal ==
    (AcquisitionCompleted /\ file.total_quantity > 0 /\ ~plan.seeded /\ plan.all_ok)
        => (plan.sent = file.total_quantity /\ file.remaining_quantity = 0)

\* the size the quantity rule of the specification gives a division of record s
QuantityRule(s) ==
    IF s.divisions_done = s.division_count - 1 THEN s.remaining_quantity
    ELSE s.remaining_quantity \div (s.division_count - s.divisions_done)

\* the plan of a scenario has run to the end of its acquisition without seeding
ScenarioDone(quantity, division_count) ==
    /\ AcquisitionCompleted
    /\ file.total_quantity = quantity
    /\ file.division_count = division_count
    /\ ~plan.seeded

\* C6: in AUTO BUYING with total_quantity > 0 the order size of a division is
\* remaining_quantity on the final division (divisions_done = division_count - 1)
\* and floor(remaining_quantity / (division_count - divisions_done)) otherwise;
\* 100 in 4 divisions gives 25,25,25,25 and 10 in 3 divisions gives 3,3,4.
C6_QuantitySizingRule ==
    /\ (sizing.reached /\ Sized.original_trade_type = "AUTO"
          /\ Sized.current_phase = "BUYING" /\ Sized.total_quantity > 0)
        => /\ Sized.division_count - Sized.divisions_done > 0
           /\ sizing.order_quantity = QuantityRule(Sized)
           /\ \A i \in 1..Len(orders) : orders[i].quantity = QuantityRule(Sized)
    /\ ScenarioDone(100, 4) => plan.sizes = <<25, 25, 25, 25>>
    /\ ScenarioDone(10, 3) => plan.sizes = <<3, 3, 4>>

C6_Witness ==
    /\ ScenarioDone(10, 3)
    /\ plan.sizes = <<3, 3, 4>>
    /\ Sized.divisions_done = Sized.division_count - 1
    /\ orders[1].quantity = 4

\* C7: a plain BUY sized by quantity in which every order succeeds: the sizes of
\* its division_count divisions sum to total_quantity.
C7_PlainBuySumsToTotal ==
    (path = "simple" /\ pre.original_trade_type = "BUY" /\ pre.total_quantity > 0
       /\ plan.all_ok /\ ~IsActive(file))
        => SumSeq(plan.sizes) = pre.total_quantity

\* C8: the size of a plain BUY division equals the size the AUTO BUYING rule
\* (lines 329-350, computed in the same cycle from the same inputs) gives, so an
\* amount-sized plain BUY orders at most floor(available_cash / current_price).
C8_PlainBuySizedLikeAuto ==
    (DivisionOrdered /\ pre.original_trade_type = "BUY")
        => /\ orders[1].quantity = sizing.order_quantity
           /\ (pre.total_quantity = 0 =>
                 orders[1].quantity <= sizing.available_cash \div sizing.current_price)

\* the amount the amount rule of the specification gives a division of record s
AmountRule(s, available_cash) ==
    LET order_amount == IF s.divisions_done = s.division_count - 1
                        THEN s.remaining_amount
                        ELSE s.remaining_amount \div (s.division_count - s.divisions_done)
    IN IF order_amount <= available_cash THEN order_amount ELSE available_cash

AmountSizedAutoBuying ==
    /\ sizing.reached
    /\ Sized.original_trade_type = "AUTO"
    /\ Sized.current_phase = "BUYING"
    /\ Sized.total_quantity = 0
    /\ Sized.total_amount > 0

\* C9: amount sizing in AUTO BUYING: order_amount is remaining_amount on the final
\* division and floor(remaining_amount / (division_count - divisions_done))
\* otherwise, clamped to available_cash; the order size is
\* floor(order_amount / current_price) and never negative; remaining_amount 100000,
\* available_cash 60000, current_price 500 on a final division orders 120 shares.
C9_AmountSizingRule ==
    /\ AmountSizedAutoBuying
        => /\ Sized.division_count - Sized.divisions_done > 0
           /\ sizing.order_quantity =
                  AmountRule(Sized, sizing.available_cash) \div sizing.current_price
           /\ sizing.order_quantity >= 0
           /\ \A i \in 1..Len(orders) : orders[i].quantity = sizing.order_quantity
    /\ (AmountSizedAutoBuying
          /\ Sized.divisions_done = Sized.division_count - 1
          /\ Sized.remaining_amount = 100000 /\ sizing.available_cash = 60000
          /\ sizing.current_price = 500)
        => (orders # <<>> /\ orders[1].quantity = 120)

C9_Witness ==
    /\ AmountSizedAutoBuying
    /\ Sized.divisions_done = Sized.division_count - 1
    /\ Sized.remaining_amount = 100000
    /\ sizing.available_cash = 60000
    /\ sizing.current_price = 500
    /\ orders # <<>> /\ orders[1].quantity = 120

\* C10: for AUTO trades the phase goes from SELLING back to BUYING only in a cycle
\* whose SELL order the gateway confirmed as successful.
C10_ResetOnlyAfterConfirmedSell ==
    (ForcedCycleDone /\ pre.original_trade_type = "AUTO"
       /\ pre.current_phase = "SELLING" /\ file.current_phase = "BUYING")
        => \E i \in 1..Len(orders) : orders[i].type = "SELL" /\ orders[i].ok

\* the last cycle worked on an AUTO record in SELLING with the venue open and a
\* positive price quoted
AutoSellingCycle ==
    /\ ForcedCycleDone
    /\ sizing.reached
    /\ pre.original_trade_type = "AUTO"
    /\ pre.current_phase = "SELLING"

\* the state machine's AUTO SELL order of the last cycle was confirmed
AutoSellSucceeded ==
    /\ AutoSellingCycle
    /\ orders # <<>>
    /\ orders[1].type = "SELL"
    /\ orders[1].ok

\* C11: immediately after a cycle in which an AUTO SELL order succeeded the
\* persisted record has current_phase BUYING, divisions_done 0, bought_quantity 0,
\* avg_buy_price 0, remaining_quantity = total_quantity, remaining_amount =
\* total_amount, and is still active.
C11_ResetAfterSuccessfulSell ==
    AutoSellSucceeded
        => /\ IsActive(file)
           /\ file.current_phase = "BUYING"
           /\ file.divisions_done = 0
           /\ file.bought_quantity = 0
           /\ file.avg_buy_price = Zero
           /\ file.remaining_quantity = file.total_quantity
           /\ file.remaining_amount = file.total_amount
           /\ file.total_quantity = pre.total_quantity
           /\ file.total_amount = pre.total_amount

C11_Witness ==
    /\ AutoSellSucceeded
    /\ pre.divisions_done > 0
    /\ pre.bought_quantity > 0
    /\ pre.remaining_quantity # pre.total_quantity
    /\ file.divisions_done = 0
    /\ file.remaining_quantity = pre.total_quantity

\* (current_price - avg_buy_price) / avg_buy_price * 100 >= sell_profit_target_percent
\* for record s, in exact arithmetic
ProfitAtLeastTarget(s, current_price) ==
    (current_price * s.avg_buy_price[2] - s.avg_buy_price[1]) * 100
        >= s.sell_profit_target_percent * s.avg_buy_price[1]

\* AUTO SELLING with bought_quantity > 0 and avg_buy_price > 0, the venue open
SellingWithAverage ==
    /\ AutoSellingCycle
    /\ pre.bought_quantity > 0
    /\ pre.avg_buy_price[1] > 0

\* the record of scenario C: avg_buy_price 1000, sell_profit_target_percent 5
ScenarioSelling ==
    /\ SellingWithAverage
    /\ pre.avg_buy_price = <<1000, 1>>
    /\ pre.sell_profit_target_percent = 5

\* C12: in AUTO SELLING with bought_quantity > 0, avg_buy_price > 0 and the venue
\* open, a SELL order is submitted if and only if the profit percent is at least
\* sell_profit_target_percent and the sellable quantity is > 0; below the target
\* the cycle leaves the state unchanged; with avg 1000 and target 5 the price
\* 1049 submits nothing and the price 1051 submits a sell.
C12_SellIffTargetReached ==
    /\ SellingWithAverage
        => /\ orders # <<>>
                <=> (ProfitAtLeastTarget(pre, sizing.current_price)
                       /\ market_data.ord_psbl_qty > 0)
           /\ \A i \in 1..Len(orders) : orders[i].type = "SELL"
           /\ ~ProfitAtLeastTarget(pre, sizing.current_price)
                => (orders = <<>> /\ file = pre)
    /\ (ScenarioSelling /\ sizing.current_price = 1049) => (orders = <<>> /\ file = pre)
    /\ (ScenarioSelling /\ sizing.current_price = 1051 /\ market_data.ord_psbl_qty > 0)
        => (orders # <<>> /\ orders[1].type = "SELL")

C12_Witness ==
    /\ ScenarioSelling
    /\ sizing.current_price = 1051
    /\ market_data.ord_psbl_qty > 0
    /\ orders # <<>>
    /\ orders[1].type = "SELL"

\* C13: the AUTO SELL order is a market order (price 0) for the sellable
\* quantity of the instrument in the account snapshot, not for the tracked
\* bought_quantity; with a sellable quantity of 0 no order is submitted and the
\* record stays in SELLING unchanged.
C13_SellsSellableQuantity ==
    AutoSellingCycle
        => /\ \A i \in 1..Len(orders) :
                  /\ orders[i].type = "SELL"
                  /\ orders[i].price = 0
                  /\ orders[i].quantity = market_data.ord_psbl_qty
           /\ (pre.bought_quantity > 0 /\ pre.avg_buy_price[1] > 0
                 /\ ProfitAtLeastTarget(pre, sizing.current_price)
                 /\ market_data.ord_psbl_qty = 0)
                => (orders = <<>> /\ file = pre /\ file.current_phase = "SELLING")

C13_Witness ==
    /\ AutoSellingCycle
    /\ orders # <<>>
    /\ orders[1].quantity = market_data.ord_psbl_qty
    /\ orders[1].quantity # pre.bought_quantity
    /\ orders[1].price = 0
    /\ pre.price # 0

\* C14: divisions_done <= division_count in every persisted record with
\* active = true, for every trade type, given a configured division_count >= 1.
C14_DivisionsDoneBounded ==
    (IsActive(file) /\ file.division_count >= 1)
        => file.divisions_done <= file.division_count

C14_Witness ==
    /\ IsActive(file)
    /\ path = "auto_buy"
    /\ file.division_count > 1
    /\ file.divisions_done = file.division_count

\* C15: no AUTO record has current_phase SELLING with bought_quantity > 0 and
\* avg_buy_price = 0.
C15_SellingHasAveragePrice ==
    (IsActive(file) /\ file.original_trade_type = "AUTO"
       /\ file.current_phase = "SELLING" /\ file.bought_quantity > 0)
        => file.avg_buy_price # Zero

\* C16: in every persisted record bought_quantity = 0 implies avg_buy_price = 0.
C16_NothingBoughtNoAverage ==
    file.bought_quantity = 0 => file.avg_buy_price = Zero

\* C17: on process start a persisted record with active = true is kept as it is.
C17_RestartKeepsActiveRecord ==
    (path = "start" /\ IsActive(pre)) => file = pre

\* C18: the persisted record changes in a cycle only if the order submitted in
\* that cycle was confirmed successful, or in one of the two order-less
\* transitions: AUTO BUYING to SELLING when nothing remains to buy, and
\* deactivation when SELLING finds bought_quantity <= 0.
C18_ChangeOnlyAfterConfirmedOrder ==
    (ForcedCycleDone /\ file # pre)
        => \/ orders # <<>> /\ orders[1].ok
           \/ /\ orders = <<>>
              /\ pre.original_trade_type = "AUTO"
              /\ pre.current_phase = "BUYING"
              /\ file.current_phase = "SELLING"
              /\ file.remaining_quantity <= 0
           \/ /\ orders = <<>>
              /\ pre.original_trade_type = "AUTO"
              /\ pre.current_phase = "SELLING"
              /\ pre.bought_quantity <= 0
              /\ ~IsActive(file)

\* the quote of the forced trade's instrument was missing or not positive
QuoteUnusable ==
    \/ ~market_data.price_df.present
    \/ market_data.price_df.stck_prpr <= 0

\* C19: when the quote of the forced trade's instrument is missing or its price
\* is <= 0, the forced-trade cycle submits no order and leaves the persisted
\* record unchanged, in every phase and for every trade type.
C19_NoQuoteNoOrder ==
    (ForcedCycleDone /\ QuoteUnusable) => (orders = <<>> /\ file = pre)

C19_Witness ==
    /\ ForcedCycleDone
    /\ market_data.price_df.present
    /\ market_data.price_df.stck_prpr = 0
    /\ pre.original_trade_type = "AUTO"
    /\ pre.current_phase = "BUYING"
    /\ pre.remaining_quantity > 0
    /\ orders = <<>>
    /\ file = pre

\* C20: when the account snapshot could not be fetched in a cycle, the
\* forced-trade state machine submits no order and does not change the persisted
\* record (the cycles in which the venue is open and the price is positive).
C20_NoSnapshotNoOrder ==
    (ForcedCycleDone /\ sizing.reached /\ ~market_data.fetched)
        => (orders = <<>> /\ file = pre)

-----------------------------------------------------------------------------
(* The venue's hours, errors in a cycle, and the state file *)

\* the venue of a market is open at a clock: a weekday, KRX from 09:00 to 15:30,
\* NXT from 08:00 to 18:00
VenueOpenAt(market, now) ==
    /\ now.weekday \in 0..4
    /\ IF market = "NXT" THEN now.minute \in 480..1080 ELSE now.minute \in 540..930

\* C21: when the venue of the forced trade is closed (weekend, or outside the
\* venue's window) the cycle hands no order to the gateway and leaves the
\* persisted record as it was, whatever the type and phase of the trade.
C21_ClosedVenueNoOrder ==
    (ForcedCycleDone /\ ~VenueOpenAt(pre.market, clock))
        => (orders = <<>> /\ file = pre /\ ret = Handled)

\* a selling AUTO trade whose target is reached by the quote, with shares to
\* sell in the snapshot, on a closed venue
C21_Witness ==
    /\ ForcedCycleDone
    /\ ~VenueOpenAt(pre.market, clock)
    /\ pre.original_trade_type = "AUTO" /\ pre.current_phase = "SELLING"
    /\ pre.avg_buy_price = <<1000, 1>>
    /\ market_data.price_df.present /\ market_data.price_df.stck_prpr = 1051
    /\ market_data.fetched

\* C22: an error raised inside a cycle does not end the polling loop: after a
\* cycle in which an exception was raised the process is still running.
C22_ErrorKeepsLoopRunning == (path = "raised") => running

\* C23: in a cycle the state file is read once and written at most once.
C23_ReadOnceWriteAtMostOnce ==
    (CycleDone /\ path # "raised") => (io.reads = 1 /\ io.writes <= 1)

\* C24: a stop of the process during save_trade_state leaves a complete record
\* in the state file, the previous one or the new one: the file still parses
\* and an active trade is still read back as active.
C24_StoppedSaveKeepsRecord ==
    (path = "stopped")
        => (file.kind # "torn" /\ (IsActive(pre) => load_trade_state(file) # InactiveDict))

-----------------------------------------------------------------------------
(* The rule selector, the condition evaluator and the strategies *)

\* the last step was a cycle in which _process_rules went through the rules
RulesScanned == path \in {"rules", "raised"}

\* rule i of the last cycle as the loop body of _process_rules treats it
StepOf(i) == RuleStep(scan.rules[i], scan.rules, clock, scan.quote, scan.acct)

\* rule i of the last cycle qualifies: its code resolves, its conditions hold
\* and its strategy answers with an order
Qualifies(i) == StepOf(i).action.status = "action"
Qualifying == {i \in 1..Len(scan.rules) : Qualifies(i)}

\* C25: the action returned belongs to the first rule, in declared order, that
\* qualifies; it carries that rule's name; no rule after it is gone through;
\* without a qualifying rule every rule is gone through and nothing is returned.
C25_FirstMatchWins ==
    (path = "rules")
        => IF Qualifying = {}
           THEN ret = NoAction /\ Len(scan.trace) = Len(scan.rules)
           ELSE LET first == CHOOSE i \in Qualifying : \A k \in Qualifying : i <= k
                IN /\ ret = StepOf(first).action
                   /\ ret.strategy_name = scan.rules[first].rule_name
                   /\ Len(scan.trace) = first

\* two rules qualify, after a rule that matched and whose strategy answered
\* with no order or was unknown
C25_Witness ==
    /\ path = "rules"
    /\ \E i, j \in Qualifying : i < j
    /\ \E k \in 1..Len(scan.trace) :
         scan.trace[k].matched /\ scan.trace[k].action = NoAction /\ k < Len(scan.trace)

\* rule i names a condition the registry does not know
NamesUnknownCondition(rule) ==
    \E j \in 1..Len(rule.conditions) : rule.conditions[j].name \notin CondNames

ConditionResult(i, j) ==
    EvalCondition(scan.rules[i].conditions[j], RuleStockCode(scan.rules[i]), clock,
                  PriceDf(scan.rules, scan.quote, RuleStockCode(scan.rules[i])),
                  scan.acct)
\* the conditions of rule i that do not hold
Failing(i) ==
    {j \in 1..Len(scan.rules[i].conditions) : ConditionResult(i, j) # "true"}

\* C27: a condition list holds exactly when all of its conditions hold; the
\* conditions are called in order up to the first that does not hold, and none
\* after it; an empty list holds.  The list [trading hours unchecked, price
\* below 50000] holds at the quote 49000 and not at the quote 51000.
C27_ConditionsShortCircuitAnd ==
    RulesScanned
        => /\ \A i \in 1..Len(scan.trace) :
                RuleStockCode(scan.rules[i]) # ""
                    => /\ scan.trace[i].matched = (Failing(i) = {})
                       /\ scan.trace[i].evaluated =
                              IF Failing(i) = {} THEN Len(scan.rules[i].conditions)
                              ELSE CHOOSE j \in Failing(i) : \A k \in Failing(i) : j <= k
                       /\ scan.rules[i].conditions = <<>> => scan.trace[i].matched
           /\ (scan.rules = DipBook /\ scan.quote.present)
                => /\ scan.quote.stck_prpr = 49000 => scan.trace[1].matched
                   /\ scan.quote.stck_prpr = 51000 => ~scan.trace[1].matched

\* the first condition of a rule does not hold and the second, which would
\* raise on this snapshot, is not called
C27_Witness ==
    /\ RulesScanned
    /\ Len(scan.trace) >= 2
    /\ scan.trace[1].action = NoAction
    /\ Len(scan.rules[1].conditions) = 2
    /\ scan.rules[1].conditions[2].name = "is_target_profit_reached"
    /\ scan.acct.row /\ ~scan.acct.rate_column
    /\ scan.trace[1].evaluated = 1

\* the rules of the last cycle whose strategy was called with a given name
Invoked(strategy_name) ==
    {i \in 1..Len(scan.trace) :
        scan.trace[i].invoked /\ scan.rules[i].strategy.name = strategy_name}

\* C28: the fixed-buy strategy with an amount and no quantity orders
\* amount \div current_price shares, and nothing when the quote is missing, the
\* price is not positive or that quantity is 0; with a quantity it orders that
\* quantity, with or without a quote.
C28_FixedBuyQuantity ==
    RulesScanned
        => \A i \in Invoked("simple_buy") :
               LET params == scan.rules[i].strategy.params
                   amount == Get(params, "amount", 0)
                   quantity == Get(params, "quantity", 0)
                   present == RuleStockCode(scan.rules[i]) \in AllStockCodes(scan.rules)
                                 /\ scan.quote.present
                   current_price == scan.quote.stck_prpr
                   action == scan.trace[i].action
               IN IF quantity # 0
                  THEN action.status = "action" /\ action.type = "BUY"
                       /\ action.quantity = quantity
                  ELSE IF amount # 0 /\ present /\ current_price > 0
                          /\ amount \div current_price > 0
                  THEN action.status = "action" /\ action.type = "BUY"
                       /\ action.quantity = amount \div current_price
                  ELSE action = NoAction

\* 1500 buys one share at the quote 1049
C28_Witness ==
    /\ path = "rules"
    /\ ret.status = "action" /\ ret.type = "BUY" /\ ret.quantity = 1
    /\ scan.quote.present /\ scan.quote.stck_prpr = 1049
    /\ \E i \in Invoked("simple_buy") :
         /\ i = Len(scan.trace)
         /\ scan.rules[i].strategy.params = [stock_code |-> ForcedCode, amount |-> 1500]

\* C29: the sell strategy with sell_all orders the quantity of the instrument
\* that can be sold now (ord_psbl_qty), and nothing when that is 0; without
\* sell_all it orders the quantity of the rule when that is positive, and
\* nothing otherwise.
C29_SellAllSellsSellable ==
    RulesScanned
        => \A i \in Invoked("simple_sell") :
               LET params == scan.rules[i].strategy.params
                   sellable == IF scan.acct.ok /\ scan.acct.row
                                  /\ params.stock_code = ForcedCode
                               THEN scan.acct.ord_psbl_qty ELSE 0
                   quantity == Get(params, "quantity", 0)
                   action == scan.trace[i].action
               IN IF Get(params, "sell_all", FALSE)
                  THEN IF sellable > 0
                       THEN action.status = "action" /\ action.type = "SELL"
                            /\ action.quantity = sellable
                       ELSE action = NoAction
                  ELSE IF quantity > 0
                  THEN action.status = "action" /\ action.type = "SELL"
                       /\ action.quantity = quantity
                  ELSE action = NoAction

\* C30: a plain BUY trade in which every order succeeded has handed exactly
\* division_count BUY orders to the gateway when its last division is done, and
\* its record is then no longer active.
C30_PlainBuySubmitsDivisionCount ==
    (path = "simple" /\ pre.original_trade_type = "BUY" /\ plan.all_ok
       /\ pre.divisions_done + 1 >= pre.division_count)
        => (plan.submitted = pre.division_count /\ ~IsActive(load_trade_state(file)))

\* a division of a plain SELL was ordered: the record the order was sized from
\* and the sellable quantity the cycle read
PlainSellOrdered ==
    /\ DivisionOrdered
    /\ path \in {"simple", "simple_failed"}
    /\ pre.original_trade_type = "SELL"

\* C31: a plain SELL with division_count >= 2 and a positive sellable quantity,
\* every order succeeding, is not left active with divisions still to do and
\* nothing left to sell: a division that is not the last one leaves a part of
\* the sellable quantity for the divisions to come.
C31_SellLeavesShareForLaterDivisions ==
    (PlainSellOrdered /\ path = "simple" /\ AllOk(orders)
       /\ pre.division_count >= 2 /\ market_data.ord_psbl_qty > 0
       /\ IsActive(file) /\ file.divisions_done < file.division_count)
        => orders[1].quantity < market_data.ord_psbl_qty

\* C32: a division of a plain SELL that is not the last one sells
\* floor(sellable / (division_count - divisions_done)), the last one sells all
\* that is sellable; with two or more divisions to go and a sellable quantity
\* of 2 or more the order is smaller than the sellable quantity.
C32_SellDivisionSize ==
    PlainSellOrdered
        => LET sellable == market_data.ord_psbl_qty
               togo == pre.division_count - pre.divisions_done
           IN /\ orders[1].quantity =
                     IF togo <= 1 THEN sellable ELSE sellable \div togo
              /\ (togo >= 2 /\ sellable >= 2) => orders[1].quantity < sellable

\* a buy division of an AUTO trade sized by amount was taken as successful
AmountSizedBuyDone ==
    /\ path = "auto_buy"
    /\ pre.total_quantity = 0
    /\ pre.total_amount > 0
    /\ pre.current_phase = "BUYING"

\* C33: an AUTO trade sized by amount changes from BUYING to SELLING only in a
\* cycle that leaves divisions_done >= division_count; with division_count >= 2
\* the first successful buy leaves the trade in BUYING.
C33_AmountSizedBuysEveryDivision ==
    (AmountSizedBuyDone /\ AllOk(orders) /\ file.current_phase = "SELLING")
        => file.divisions_done >= file.division_count

\* C34: a successful buy division of an AUTO trade sized by amount leaves a
\* remaining_amount that is smaller than before (the order has a positive size)
\* and not negative.
C34_RemainingAmountReduced ==
    (AmountSizedBuyDone /\ AllOk(orders) /\ orders[1].quantity > 0)
        => /\ file.remaining_amount < pre.remaining_amount
           /\ file.remaining_amount >= 0

QuantitySizedAcquired ==
    /\ path \in {"auto_buy", "auto_buy_skip"}
    /\ pre.original_trade_type = "AUTO"
    /\ pre.total_quantity > 0
    /\ pre.current_phase = "BUYING"
    /\ file.current_phase = "SELLING"
    /\ plan.all_ok

\* the divisions decided by the state machine of a seeded acquisition cycle
SeededSizesSumToRest ==
    (QuantitySizedAcquired /\ plan.seeded)
        => /\ SumSeq(plan.sizes) = Max(0, pre.total_quantity - plan.seed_qty)
           /\ plan.seed_qty >= pre.total_quantity
                 => (plan.submitted = 0 /\ path = "auto_buy_skip")

\* C36: a quantity-sized AUTO trade whose BUYING phase finds h shares already
\* held: the buy orders of the acquisition cycle total
\* max(0, total_quantity - h), and with h >= total_quantity the trade moves to
\* SELLING without a buy order.
C36_SeededBuysTotalTheRest ==
    (QuantitySizedAcquired /\ plan.seeded)
        => /\ plan.sent = Max(0, pre.total_quantity - plan.seed_qty)
           /\ plan.seed_qty >= pre.total_quantity
                 => (plan.submitted = 0 /\ path = "auto_buy_skip")

\* the rules of the last cycle whose only condition is is_trading_hours
HoursRules ==
    {i \in 1..Len(scan.trace) :
        /\ Len(scan.rules[i].conditions) = 1
        /\ scan.rules[i].conditions[1].name = "is_trading_hours"
        /\ RuleStockCode(scan.rules[i]) # ""}

\* C37: the trading-hours condition of a rule is evaluated against the window
\* of the rule's own venue (the market of its strategy params: 08:00-18:00 for
\* NXT, 09:00-15:30 otherwise); it is false at a weekend and true whenever
\* check_enabled is false.
C37_HoursOfTheRulesVenue ==
    RulesScanned
        => \A i \in HoursRules :
              scan.trace[i].matched =
                  is_trading_hours(Get(scan.rules[i].conditions[1].params,
                                       "check_enabled", TRUE),
                                   Get(scan.rules[i].strategy.params, "market", "KRX"),
                                   clock)

\* a cycle of an AUTO trade that initialization created with a target
AutoTradeCycle ==
    /\ ForcedCycleDone
    /\ config.trade_type = "AUTO"
    /\ config.quantity > 0 \/ config.amount > 0
    /\ pre.original_trade_type = "AUTO"

\* C38: an AUTO trade created by initialization with total_quantity > 0 or
\* total_amount > 0 never sets active to false by its own transitions: every
\* cycle leaves the record active, the SELLING cycle that finds
\* bought_quantity <= 0 and clears the record does not happen, and after a
\* successful sell the record is in BUYING.
C38_AutoTradeStaysActive ==
    AutoTradeCycle
        => /\ IsActive(file)
           /\ path # "auto_sell_empty"
           /\ (pre.current_phase = "SELLING" => pre.bought_quantity > 0)
           /\ (path = "auto_sell" /\ AllOk(orders)) => file.current_phase = "BUYING"

\* a seeded trade that went to SELLING without a buy has sold and is buying again
C38_Witness ==
    /\ AutoTradeCycle
    /\ path = "auto_sell"
    /\ AllOk(orders)
    /\ pre.divisions_done = 0
    /\ pre.bought_quantity >= pre.total_quantity
    /\ IsActive(file)
    /\ file.current_phase = "BUYING"

\* the gateway answered every request for a quote of the forced trade's
\* instrument with a positive price
QuoteGatewayAnswers ==
    market_data.asked
        => (market_data.price_df.present /\ market_data.price_df.stck_prpr > 0)

\* C39: in a cycle of an active forced trade with its venue open and the
\* gateway answering every request with a positive price, the snapshot holds
\* the quote of the trade's stock_code and the state machine reaches the
\* sizing of the order, whether or not a rule names that stock_code.
C39_ForcedTradeGetsItsQuote ==
    (ForcedCycleDone /\ VenueOpenAt(pre.market, clock) /\ QuoteGatewayAnswers)
        => (market_data.price_df.present /\ sizing.reached)

\* C40: a cycle decided by the rule selector never writes the persisted
\* forced-trade state: save_trade_state is not called and the file after the
\* cycle is the file before it.
C40_RuleCycleLeavesStateFile ==
    RulesScanned => (io.writes = 0 /\ file = pre)

\* a rule ordered while the file holds an active record of a disabled forced trade
C40_Witness ==
    /\ RulesScanned
    /\ ret.status = "action"
    /\ orders # <<>>
    /\ IsActive(file)
    /\ file.divisions_done > 0

====
